---- MODULE Spec2Model ----
(***************************************************************************)
(* A model of the keyed record store (class Database) and of the           *)
(* notification channel (createSubject) it is instrumented with.           *)
(*                                                                         *)
(* The program is single-threaded and synchronous, but a subscriber runs   *)
(* "inside" set/get and may call back into the store or the channel.  The  *)
(* model therefore keeps the call stack: one frame per set/get call in     *)
(* progress, holding the position of notify's for-of loop.  A subscriber   *)
(* body is an arbitrary finite sequence of store/channel calls that ends   *)
(* by returning or by throwing.                                            *)
(***************************************************************************)
EXTENDS Integers, Sequences, FiniteSets, TLC

(* ------------------------------ bounds -------------------------------- *)

\* deepest nesting of set/get calls (a subscriber calling back in)
MaxDepth == 2

\* number of registerObserver calls in one behaviour of Spec
MaxSubs == 1

\* number of set and get calls in one behaviour of Spec
MaxCalls == 3

\* number of registerObserver calls in one behaviour of SpecChannel
MaxChanSubs == 3

\* number of set and get calls in one behaviour of SpecChannel
MaxChanCalls == 2

\* number of registerObserver calls in one behaviour of SpecQuery
MaxQuerySubs == 1

\* number of set and get calls in one behaviour of SpecQuery
MaxQueryCalls == 2

(* ------------------------------ values -------------------------------- *)

\* identifiers handed to set and keys handed to get
Keys == {"a", "constructor", "__proto__"}

\* further keys handed to get only
ReadKeys == Keys

\* values of IBaseDBRecord's payload field
Attacks == {10, 90}

\* the callback functions the callers own (compared by identity, ===)
Cbs == {"f", "g"}

Chans == {"beforeSet", "onRead"}

\* a record (IPokemon without armor)
Item(id, attack) == [kind |-> "record", id |-> id, attack |-> attack]

\* the records handed to set: two for the ordinary id, so that a record can
\* be replaced by a different one, and one for each other id
Items == {Item("a", at) : at \in Attacks} \cup
         {Item(id, 10) : id \in Keys \ {"a"}}

\* identifiers handed to set where the store is queried: an ordinary one and
\* two that are canonical array indices
QueryKeys == {"a", "2", "10"}

\* the elements of a sequence
Range(seq) == {seq[k] : k \in 1..Len(seq)}

\* the JavaScript value undefined
Undefined == [kind |-> "undefined"]

\* a value that lives on Object.prototype (a built-in function, or
\* Object.prototype itself)
Builtin(name) == [kind |-> "builtin", name |-> name]

\* a primitive read off an inherited field
Primitive(v) == [kind |-> "primitive", val |-> v]

\* the data properties and methods every {} inherits from Object.prototype
ObjectPrototypeNames == {"constructor", "toString"}

\* the prototype of an object literal
ObjectPrototype == Builtin("Object.prototype")

(* ------------------------ records and scores -------------------------- *)

\* an IPokemon
Pokemon(id, attack, armor) ==
    [kind |-> "record", id |-> id, attack |-> attack, armor |-> armor]

\* <<attack, armor>> of pikachu, charmander and bulbasaur
Stats == {<<90, 10>>, <<40, 60>>, <<1, -1>>}

\* the records handed to set where the store is queried
QueryItems == {Pokemon(id, st[1], st[2]) : id \in QueryKeys, st \in Stats}

\* the number m * (2^53 - 1) + n / d, with d > 0 and |n / d| < 2^53 - 1
Num(m, n, d) == [m |-> m, n |-> n, d |-> d]

\* Number.MIN_SAFE_INTEGER, -(2^53 - 1)
MinSafeInteger == Num(-1, 0, 1)

\* x < y
Less(x, y) ==
    \/ x.m < y.m
    \/ x.m = y.m /\ x.n * y.d < y.n * x.d

\* x === y
NumEq(x, y) == x.m = y.m /\ x.n * y.d = y.n * x.d

\* x > y
Greater(x, y) == Less(y, x)

\* the greatest common divisor of a >= 0 and b >= 0
RECURSIVE Gcd(_, _)
Gcd(a, b) == IF b = 0 THEN a ELSE Gcd(b, a % b)

\* the number n / d (d > 0) in lowest terms
Fraction(n, d) ==
    LET g == Gcd(IF n < 0 THEN -n ELSE n, d)
    IN  Num(0, n \div g, d \div g)

\* x - y, x + y, x / y (y # 0), Math.abs(x) and -x on numbers with m = 0
NumSub(x, y) == Fraction(x.n * y.d - y.n * x.d, x.d * y.d)

NumAdd(x, y) == Fraction(x.n * y.d + y.n * x.d, x.d * y.d)

NumDiv(x, y) ==
    IF y.n > 0 THEN Fraction(x.n * y.d, x.d * y.n)
    ELSE Fraction(-(x.n * y.d), x.d * (-y.n))

NumAbs(x) == Num(0, IF x.n < 0 THEN -x.n ELSE x.n, x.d)

NumNeg(x) == Num(0, -x.n, x.d)

\* the scoring policies of the program
Policies == {"BestAttack", "BestBalance", "Zero"}

\* BestAttack.evaluate
BestAttackEvaluate(pokemon) == Num(0, pokemon.attack, 1)

\* BestBalance.evaluate
BestBalanceEvaluate(pokemon) ==
    LET attack == Num(0, pokemon.attack, 1)
        armor == Num(0, pokemon.armor, 1)
        median == Num(0, pokemon.attack + pokemon.armor, 2)
        deviation == NumAdd(NumDiv(NumAbs(NumSub(median, attack)), median),
                            NumDiv(NumAbs(NumSub(median, armor)), median))
    IN  IF median.n = 0 THEN MinSafeInteger ELSE NumNeg(deviation)

\* strategy.evaluate(item)
Evaluate(strategy, item) ==
    CASE strategy = "BestAttack" -> BestAttackEvaluate(item)
      [] strategy = "BestBalance" -> BestBalanceEvaluate(item)
      [] strategy = "Zero" -> Num(0, 0, 1)

\* the score functions handed to getBestByScore: the evaluate of a policy,
\* and () => Number.MIN_SAFE_INTEGER - 1
ScoreFunctions == Policies \cup {"BelowSentinel"}

\* scoreStrategy(item)
ScoreOf(fn, item) ==
    CASE fn \in Policies -> Evaluate(fn, item)
      [] fn = "BelowSentinel" -> Num(-1, -1, 1)

(* ------------------------------- state -------------------------------- *)

VARIABLES
    db,         \* own properties of this.db, in creation order (Seq of Items)
    dbProto,    \* [[Prototype]] of this.db
    observers,  \* per channel: the array the variable `observers` is bound to
    handles,    \* the unsubscribe closures returned so far
    nextSid,    \* number of registerObserver calls so far, plus one
    calls,      \* number of set and get calls so far
    stack,      \* set/get calls in progress, innermost last
    exc,        \* TRUE while a thrown error is unwinding
    ret,        \* what the step just taken returned to its caller
    lastSet,    \* history: per id, the record of the last set that returned
    setIds,     \* history: the ids passed to set so far
    replaced,   \* history: the ids whose record a set replaced by another
    dead,       \* history: the subscriptions whose callback was unsubscribed
                \*          after they were made
    usedSids,   \* history: the subscriptions whose handle was invoked
    bestStrategy, \* this.bestStrategy
    inserted    \* history: the ids stored so far, in order of first storing

vars == <<db, dbProto, observers, handles, nextSid, calls, stack, exc, ret,
          lastSet, setIds, replaced, dead, usedSids, bestStrategy, inserted>>

NoRet == [op |-> "none"]

(* ----------------------- the container object ------------------------- *)

\* index of the own property named key in d, 0 when there is none
OwnIndex(d, key) ==
    IF \E k \in 1..Len(d) : d[k].id = key
    THEN CHOOSE k \in 1..Len(d) : d[k].id = key
    ELSE 0

\* a [[Get]] that reached Object.prototype
ObjectPrototypeGet(key) ==
    IF key \in ObjectPrototypeNames THEN Builtin(key) ELSE Undefined

\* a [[Get]] on the prototype p of this.db
ProtoGet(p, key) ==
    IF p = ObjectPrototype THEN ObjectPrototypeGet(key)
    ELSE IF key = "id" THEN Primitive(p.id)
    ELSE IF key = "attack" THEN Primitive(p.attack)
    ELSE ObjectPrototypeGet(key)

\* this.db[key]: an own property, else the prototype chain; __proto__ is
\* the accessor of Object.prototype and answers the prototype
Lookup(d, p, key) ==
    IF key = "__proto__" THEN p
    ELSE IF OwnIndex(d, key) # 0 THEN d[OwnIndex(d, key)]
    ELSE ProtoGet(p, key)

\* this.db[item.id] = item that keeps the record already stored
AssignOwnKeepFirst(d, item) ==
    IF item.id = "__proto__" THEN d
    ELSE IF OwnIndex(d, item.id) # 0 THEN d
    ELSE Append(d, item)

\* the own properties after this.db[item.id] = item
AssignOwn(d, item) ==
    IF item.id = "__proto__" THEN d
    ELSE IF OwnIndex(d, item.id) # 0
         THEN [d EXCEPT ![OwnIndex(d, item.id)] = item]
         ELSE Append(d, item)

\* the prototype after this.db[item.id] = item
AssignProto(p, item) ==
    IF item.id = "__proto__" THEN item ELSE p

\* the array index a property key denotes, -1 when it is no canonical
\* array index
ArrayIndex(key) ==
    CASE key = "2" -> 2
      [] key = "10" -> 10
      [] OTHER -> -1

\* the own properties of d at the positions S, in ascending index order
RECURSIVE AscendingIndex(_, _)
AscendingIndex(d, S) ==
    IF S = {} THEN <<>>
    ELSE LET k == CHOOSE k \in S :
                      \A j \in S : ArrayIndex(d[k].id) <= ArrayIndex(d[j].id)
         IN  <<d[k]>> \o AscendingIndex(d, S \ {k})

\* Object.values(this.db): the own enumerable properties, array indices
\* first in ascending order, then the other keys in creation order
Values(d) ==
    AscendingIndex(d, {k \in 1..Len(d) : ArrayIndex(d[k].id) >= 0}) \o
    SelectSeq(d, LAMBDA r : ArrayIndex(r.id) < 0)

(* --------------------------- the channel ------------------------------ *)

\* an element of an observers array: the function, and (history) the
\* registerObserver call that pushed it
Entry(cb, sid) == [cb |-> cb, sid |-> sid]

\* observers.filter that removes nothing
FilterNothing(obs, observer) == obs

\* observers.filter((o) => o !== observer)
Filter(obs, observer) ==
    SelectSeq(obs, LAMBDA o : o.cb # observer)

\* observers.unshift(e)
PushFront(obs, e) == <<e>> \o obs

\* observers.push(e)
Push(obs, e) == Append(obs, e)

\* TRUE when the loop of frame f has yet to reach an element holding observer
Pending(f, observer) ==
    \E k \in (f.i + 1)..Len(f.arr) : f.arr[k].cb = observer

\* a frame's array after observers.push(e) on channel chan: the for-of loop
\* iterates the array object itself, so it sees the push when that object
\* is still the one `observers` is bound to
PushSeen(f, chan, e) ==
    IF f.chan = chan /\ f.live
    THEN [f EXCEPT !.arr = Push(@, e), !.subDuring = TRUE]
    ELSE IF f.chan = chan THEN [f EXCEPT !.subDuring = TRUE]
    ELSE f

\* a frame after an unsubscribe that had filtered the array in place
RebindSeenInPlace(f, chan, observer) ==
    IF f.chan = chan
    THEN [f EXCEPT !.arr = SubSeq(@, 1, f.i) \o
                           Filter(SubSeq(@, f.i + 1, Len(@)), observer),
                   !.unsubDuring = TRUE,
                   !.unsubPending = @ \/ Pending(f, observer)]
    ELSE f

\* a frame after `observers = observers.filter(...)` on channel chan: the
\* loop keeps the old array object, which no later push reaches
RebindSeen(f, chan, observer) ==
    IF f.chan = chan
    THEN [f EXCEPT !.live = FALSE, !.unsubDuring = TRUE,
                   !.unsubPending = @ \/ Pending(f, observer)]
    ELSE f

(* ------------------------------ frames -------------------------------- *)

\* { existingItem: this.db[item.id], item: item }
SetEvent(d, p, item) ==
    [existingItem |-> Lookup(d, p, item.id), item |-> item]

\* { id: "" }: the event built without the key
ReadEventNoKey(key) == [id |-> ""]

\* { id: key }
ReadEvent(key) == [id |-> key]

\* a call of notifyObservers(ev) on one subject shared by both channels
FrameShared(op, chan, key, item, ev) ==
    [op |-> op, chan |-> chan, key |-> key, item |-> item, ev |-> ev,
     arr |-> observers["beforeSet"] \o observers["onRead"], live |-> TRUE,
     i |-> 0, running |-> FALSE,
     snap |-> observers["beforeSet"] \o observers["onRead"],
     invoked |-> <<>>,
     subDuring |-> FALSE, unsubDuring |-> FALSE, unsubPending |-> FALSE,
     gone |-> dead, before |-> lastSet[key],
     dbBefore |-> <<db, dbProto>>, nested |-> FALSE]

\* a call of notifyObservers(ev) made by op on channel chan
Frame(op, chan, key, item, ev) ==
    [op |-> op, chan |-> chan, key |-> key, item |-> item, ev |-> ev,
     arr |-> observers[chan], live |-> TRUE, i |-> 0, running |-> FALSE,
     snap |-> observers[chan], invoked |-> <<>>,
     subDuring |-> FALSE, unsubDuring |-> FALSE, unsubPending |-> FALSE,
     gone |-> dead, before |-> lastSet[key],
     dbBefore |-> <<db, dbProto>>, nested |-> FALSE]

Top == stack[Len(stack)]

\* the code that is running: the main program, or a subscriber body
InCaller == ~exc /\ (IF stack = <<>> THEN TRUE ELSE Top.running)

\* what a finished or aborted call reports
Report(f, val, raised) ==
    [op |-> f.op, key |-> f.key, item |-> f.item, val |-> val,
     raised |-> raised, chan |-> f.chan, ev |-> f.ev, snap |-> f.snap,
     invoked |-> f.invoked, subDuring |-> f.subDuring,
     unsubDuring |-> f.unsubDuring, unsubPending |-> f.unsubPending,
     before |-> f.before, dbBefore |-> f.dbBefore, nested |-> f.nested,
     pending |-> Len(f.arr) - f.i, depth |-> Len(stack)]

Pop == SubSeq(stack, 1, Len(stack) - 1)

\* the calls in progress s after observers.push(e) on channel chan
PushSeenAll(s, chan, e) ==
    IF s = <<>> THEN <<>> ELSE [k \in 1..Len(s) |-> PushSeen(s[k], chan, e)]

\* the calls in progress s after the closure for observer ran on channel chan
RebindSeenAll(s, chan, observer) ==
    IF s = <<>> THEN <<>>
    ELSE [k \in 1..Len(s) |-> RebindSeen(s[k], chan, observer)]

\* the calls in progress s, after a set they enclose has stored its record
NestedSeenAll(s) ==
    IF s = <<>> THEN <<>>
    ELSE [k \in 1..Len(s) |-> [s[k] EXCEPT !.nested = TRUE]]

(* --------------------------- best-of scans ---------------------------- *)

\* the callback of getBestByScore, run by each over items, given the
\* result and bestScore reached so far
RECURSIVE ByScoreScan(_, _, _, _)
ByScoreScan(items, scoreStrategy, result, bestScore) ==
    IF items = <<>> THEN result
    ELSE LET item == Head(items)
             score == ScoreOf(scoreStrategy, item)
         IN  IF Greater(score, bestScore)
             THEN ByScoreScan(Tail(items), scoreStrategy, <<item>>, score)
             ELSE IF NumEq(score, bestScore)
             THEN ByScoreScan(Tail(items), scoreStrategy,
                              Append(result, item), bestScore)
             ELSE ByScoreScan(Tail(items), scoreStrategy, result, bestScore)

\* getBestByScore whose result starts with a placeholder element
GetBestByScoreResultSeeded(d, scoreStrategy) ==
    ByScoreScan(Values(d), scoreStrategy, <<Undefined>>, MinSafeInteger)

\* getBestByScore(scoreStrategy) on the own properties d
GetBestByScoreResult(d, scoreStrategy) ==
    ByScoreScan(Values(d), scoreStrategy, <<>>, MinSafeInteger)

\* the callback of getBestWiki, run by each over items
RECURSIVE WikiScan(_, _, _, _)
WikiScan(items, strategy, result, bestScore) ==
    IF items = <<>> THEN result
    ELSE LET item == Head(items)
             score == Evaluate(strategy, item)
         IN  IF Greater(score, bestScore)
             THEN WikiScan(Tail(items), strategy, <<item>>, score)
             ELSE IF NumEq(score, bestScore)
             THEN WikiScan(Tail(items), strategy,
                           Append(result, item), bestScore)
             ELSE WikiScan(Tail(items), strategy, result, bestScore)

\* getBestWiki() that scores with the policy the store was constructed with
GetBestWikiResultInitial(d, strategy) ==
    WikiScan(Values(d), "BestAttack", <<>>, MinSafeInteger)

\* getBestWiki() on the own properties d under this.bestStrategy = strategy
GetBestWikiResult(d, strategy) ==
    WikiScan(Values(d), strategy, <<>>, MinSafeInteger)

\* what a query reports: its result, the score function or policy it
\* used, and the records its callback was called with
QueryReport(op, fn, result, visited) ==
    [op |-> op, fn |-> fn, result |-> result, visited |-> visited,
     raised |-> FALSE]

(* ------------------------------- Init --------------------------------- *)

Init ==
    /\ db = <<>>
    /\ dbProto = ObjectPrototype
    /\ observers = [c \in Chans |-> <<>>]
    /\ handles = {}
    /\ nextSid = 1
    /\ calls = 0
    /\ stack = <<>>
    /\ exc = FALSE
    /\ ret = NoRet
    /\ lastSet = [k \in ReadKeys \cup QueryKeys |-> Undefined]
    /\ setIds = {}
    /\ replaced = {}
    /\ dead = {}
    /\ usedSids = {}
    /\ bestStrategy = "BestAttack"
    /\ inserted = <<>>

(* ------------------------------ actions ------------------------------- *)

\* Database.set, up to the call of notifyObservers
CallSet(item, maxCalls) ==
    /\ InCaller
    /\ Len(stack) < MaxDepth
    /\ calls < maxCalls
    /\ calls' = calls + 1
    /\ stack' = Append(stack,
                  Frame("set", "beforeSet", item.id, item,
                        SetEvent(db, dbProto, item)))
    /\ setIds' = setIds \cup {item.id}
    /\ ret' = NoRet
    /\ UNCHANGED <<bestStrategy, inserted, db, dbProto, observers, handles, nextSid, exc, lastSet,
                   replaced, dead, usedSids>>

\* Database.get, up to the call of notifyObservers
CallGet(key, maxCalls) ==
    /\ InCaller
    /\ Len(stack) < MaxDepth
    /\ calls < maxCalls
    /\ calls' = calls + 1
    /\ stack' = Append(stack,
                  Frame("get", "onRead", key, Undefined, ReadEvent(key)))
    /\ ret' = NoRet
    /\ UNCHANGED <<bestStrategy, inserted, db, dbProto, observers, handles, nextSid, exc, lastSet,
                   setIds, replaced, dead, usedSids>>

\* onBeforeSet / onRead -> register: push, and return the closure
Subscribe(chan, cb, maxSubs) ==
    /\ InCaller
    /\ nextSid <= maxSubs
    /\ observers' = [observers EXCEPT ![chan] = Push(@, Entry(cb, nextSid))]
    /\ stack' = PushSeenAll(stack, chan, Entry(cb, nextSid))
    /\ handles' = handles \cup {[chan |-> chan, cb |-> cb, sid |-> nextSid]}
    /\ nextSid' = nextSid + 1
    /\ ret' = NoRet
    /\ UNCHANGED <<bestStrategy, inserted, db, dbProto, calls, exc, lastSet, setIds, replaced, dead,
                   usedSids>>

\* the closure returned by register
Unsubscribe(h) ==
    /\ InCaller
    /\ h \in handles
    /\ observers' = [observers EXCEPT ![h.chan] = Filter(@, h.cb)]
    /\ stack' = RebindSeenAll(stack, h.chan, h.cb)
    /\ dead' = dead \cup {g.sid : g \in {x \in handles :
                                          x.chan = h.chan /\ x.cb = h.cb}}
    /\ usedSids' = usedSids \cup {h.sid}
    /\ ret' = NoRet
    /\ UNCHANGED <<bestStrategy, inserted, db, dbProto, handles, nextSid, calls, exc, lastSet, setIds,
                   replaced>>

\* notify: one turn of the for-of loop, up to the call observer(ev)
NotifyStep ==
    /\ ~exc
    /\ stack # <<>>
    /\ ~Top.running
    /\ Top.i < Len(Top.arr)
    /\ stack' = [stack EXCEPT ![Len(stack)] =
                   [@ EXCEPT !.i = @ + 1,
                             !.running = TRUE,
                             !.invoked = Append(@,
                                 [cb |-> Top.arr[Top.i + 1].cb,
                                  sid |-> Top.arr[Top.i + 1].sid,
                                  ev |-> Top.ev])]]
    /\ ret' = NoRet
    /\ UNCHANGED <<bestStrategy, inserted, db, dbProto, observers, handles, nextSid, calls, exc, lastSet,
                   setIds, replaced, dead, usedSids>>

\* a subscriber body returns
CallbackReturn ==
    /\ ~exc
    /\ stack # <<>>
    /\ Top.running
    /\ stack' = [stack EXCEPT ![Len(stack)] = [@ EXCEPT !.running = FALSE]]
    /\ ret' = NoRet
    /\ UNCHANGED <<bestStrategy, inserted, db, dbProto, observers, handles, nextSid, calls, exc, lastSet,
                   setIds, replaced, dead, usedSids>>

\* a subscriber body throws under a set that had stored the record before
\* it notified
CallbackThrowAfterCommit ==
    /\ ~exc
    /\ stack # <<>>
    /\ Top.running
    /\ stack' = Pop
    /\ exc' = TRUE
    /\ ret' = Report(Top, Undefined, TRUE)
    /\ db' = IF Top.op = "set" THEN AssignOwn(db, Top.item) ELSE db
    /\ UNCHANGED <<bestStrategy, inserted, dbProto, observers, handles, nextSid, calls, lastSet,
                   setIds, replaced, dead, usedSids>>

\* a subscriber body throws: notify and the set/get that called it have no
\* try/catch, the call is abandoned
CallbackThrow ==
    /\ ~exc
    /\ stack # <<>>
    /\ Top.running
    /\ stack' = Pop
    /\ exc' = TRUE
    /\ ret' = Report(Top, Undefined, TRUE)
    /\ UNCHANGED <<bestStrategy, inserted, db, dbProto, observers, handles, nextSid, calls, lastSet,
                   setIds, replaced, dead, usedSids>>

\* the caller of the abandoned call (main program or subscriber) catches
Catch ==
    /\ exc
    /\ exc' = FALSE
    /\ ret' = NoRet
    /\ UNCHANGED <<bestStrategy, inserted, db, dbProto, observers, handles, nextSid, calls, stack, lastSet,
                   setIds, replaced, dead, usedSids>>

\* the caller is a subscriber that does not catch: its own call is
\* abandoned as well
Propagate ==
    /\ exc
    /\ stack # <<>>
    /\ stack' = Pop
    /\ ret' = Report(Top, Undefined, TRUE)
    /\ UNCHANGED <<bestStrategy, inserted, db, dbProto, observers, handles, nextSid, calls, exc, lastSet,
                   setIds, replaced, dead, usedSids>>

\* Database.set after notifyObservers returned: this.db[item.id] = item
SetReturn ==
    /\ ~exc
    /\ stack # <<>>
    /\ Top.op = "set"
    /\ ~Top.running
    /\ Top.i = Len(Top.arr)
    /\ db' = AssignOwn(db, Top.item)
    /\ dbProto' = AssignProto(dbProto, Top.item)
    /\ lastSet' = [lastSet EXCEPT ![Top.key] = Top.item]
    /\ replaced' = IF lastSet[Top.key] \notin {Undefined, Top.item}
                   THEN replaced \cup {Top.key} ELSE replaced
    /\ inserted' = IF Top.key \in Range(inserted) THEN inserted
                   ELSE Append(inserted, Top.key)
    /\ stack' = NestedSeenAll(Pop)
    /\ ret' = Report(Top, Undefined, FALSE)
    /\ UNCHANGED <<bestStrategy, observers, handles, nextSid, calls, exc, setIds, dead,
                   usedSids>>

\* get that removes the property it returns
GetReturnConsuming ==
    /\ ~exc
    /\ stack # <<>>
    /\ Top.op = "get"
    /\ ~Top.running
    /\ Top.i = Len(Top.arr)
    /\ stack' = Pop
    /\ ret' = Report(Top, Lookup(db, dbProto, Top.key), FALSE)
    /\ db' = LET Other(r) == r.id # Top.key IN SelectSeq(db, Other)
    /\ UNCHANGED <<bestStrategy, inserted, dbProto, observers, handles,
                   nextSid, calls, exc, lastSet, setIds, replaced, dead,
                   usedSids>>

\* Database.get after notifyObservers returned: return this.db[key]
GetReturn ==
    /\ ~exc
    /\ stack # <<>>
    /\ Top.op = "get"
    /\ ~Top.running
    /\ Top.i = Len(Top.arr)
    /\ stack' = Pop
    /\ ret' = Report(Top, Lookup(db, dbProto, Top.key), FALSE)
    /\ UNCHANGED <<bestStrategy, inserted, db, dbProto, observers, handles, nextSid, calls, exc, lastSet,
                   setIds, replaced, dead, usedSids>>

\* each that publishes a read event for the records it visits
EachNotifying ==
    /\ InCaller
    /\ Len(stack) < MaxDepth
    /\ stack' = Append(stack,
                  Frame("get", "onRead", "a", Undefined, ReadEvent("a")))
    /\ ret' = QueryReport("each", "visit", Values(db), Values(db))
    /\ UNCHANGED <<db, dbProto, observers, handles, nextSid, calls,
                   exc, lastSet, setIds, replaced, dead, usedSids,
                   bestStrategy, inserted>>

\* Database.each, with a visitor that makes no call of its own
Each ==
    /\ InCaller
    /\ ret' = QueryReport("each", "visit", Values(db), Values(db))
    /\ UNCHANGED <<db, dbProto, observers, handles, nextSid, calls, stack,
                   exc, lastSet, setIds, replaced, dead, usedSids,
                   bestStrategy, inserted>>

\* Database.getBestByScore
GetBestByScore(scoreStrategy) ==
    /\ InCaller
    /\ ret' = QueryReport("getBestByScore", scoreStrategy,
                          GetBestByScoreResult(db, scoreStrategy), Values(db))
    /\ UNCHANGED <<db, dbProto, observers, handles, nextSid, calls, stack,
                   exc, lastSet, setIds, replaced, dead, usedSids,
                   bestStrategy, inserted>>

\* getBestWiki whose best score starts at 0
GetBestWikiFromZero ==
    /\ InCaller
    /\ ret' = QueryReport("getBestWiki", bestStrategy,
                          WikiScan(Values(db), bestStrategy, <<>>,
                                   Num(0, 0, 1)),
                          Values(db))
    /\ UNCHANGED <<db, dbProto, observers, handles, nextSid, calls, stack,
                   exc, lastSet, setIds, replaced, dead, usedSids,
                   bestStrategy, inserted>>

\* Database.getBestWiki
GetBestWiki ==
    /\ InCaller
    /\ ret' = QueryReport("getBestWiki", bestStrategy,
                          GetBestWikiResult(db, bestStrategy), Values(db))
    /\ UNCHANGED <<db, dbProto, observers, handles, nextSid, calls, stack,
                   exc, lastSet, setIds, replaced, dead, usedSids,
                   bestStrategy, inserted>>

\* Database.setBestStrategy
SetBestStrategy(strategy) ==
    /\ InCaller
    /\ bestStrategy' = strategy
    /\ ret' = [op |-> "setBestStrategy", fn |-> strategy, raised |-> FALSE]
    /\ UNCHANGED <<db, dbProto, observers, handles, nextSid, calls, stack,
                   exc, lastSet, setIds, replaced, dead, usedSids, inserted>>

Next ==
    \/ \E item \in Items : CallSet(item, MaxCalls)
    \/ \E key \in ReadKeys : CallGet(key, MaxCalls)
    \/ \E chan \in Chans, cb \in Cbs : Subscribe(chan, cb, MaxSubs)
    \/ \E h \in handles : Unsubscribe(h)
    \/ NotifyStep
    \/ CallbackReturn
    \/ CallbackThrow
    \/ Catch
    \/ Propagate
    \/ SetReturn
    \/ GetReturn

\* the store with at most MaxSubs subscribers, over every identifier
Spec == Init /\ [][Next]_vars

\* the records of the ordinary identifier
ChanItems == {Item("a", at) : at \in Attacks}

NextChannel ==
    \/ \E item \in ChanItems : CallSet(item, MaxChanCalls)
    \/ CallGet("a", MaxChanCalls)
    \/ \E cb \in Cbs : Subscribe("beforeSet", cb, MaxChanSubs)
    \/ \E h \in handles : Unsubscribe(h)
    \/ NotifyStep
    \/ CallbackReturn
    \/ CallbackThrow
    \/ Catch
    \/ Propagate
    \/ SetReturn
    \/ GetReturn

\* the pre-write channel with up to MaxChanSubs subscribers, over one
\* identifier
SpecChannel == Init /\ [][NextChannel]_vars

NextQuery ==
    \/ \E item \in QueryItems : CallSet(item, MaxQueryCalls)
    \/ \E key \in QueryKeys : CallGet(key, MaxQueryCalls)
    \/ \E chan \in Chans : Subscribe(chan, "f", MaxQuerySubs)
    \/ \E h \in handles : Unsubscribe(h)
    \/ NotifyStep
    \/ CallbackReturn
    \/ CallbackThrow
    \/ Catch
    \/ Propagate
    \/ SetReturn
    \/ GetReturn
    \/ Each
    \/ \E fn \in ScoreFunctions : GetBestByScore(fn)
    \/ GetBestWiki
    \/ \E strategy \in Policies : SetBestStrategy(strategy)

\* the store with its queries, over identifiers that are array indices
SpecQuery == Init /\ [][NextQuery]_vars

(* ---------------------- properties of the store ----------------------- *)

\* the step just taken is a set or get returning normally
Returned == ret.op \in {"set", "get"} /\ ~ret.raised

\* the step just taken abandoned a set or get
Raised == ret.op \in {"set", "get"} /\ ret.raised

Sids(seq) == {seq[k].sid : k \in 1..Len(seq)}

\* C1: last-write-wins. A get of an id that was set returns exactly the
\* record passed to the last set of that id that returned, whole.
C1_LastWriteWins ==
    (Returned /\ ret.op = "get" /\ lastSet[ret.key] # Undefined)
        => ret.val = lastSet[ret.key]

\* a get answers the second of two different records set under its id
C1_Witness ==
    /\ Returned /\ ret.op = "get"
    /\ ret.key \in replaced
    /\ ret.val = Item("a", 90)

\* C2: the pre-write event of set(record) carries the record stored under
\* record.id before the call, or absent, and the incoming record; a get of
\* record.id made by a subscriber during the event answers that same
\* pre-existing value.
C2_PreWriteEvent ==
    /\ \A k \in 1..Len(stack) :
          stack[k].op = "set" =>
              /\ stack[k].ev.item = stack[k].item
              /\ stack[k].ev.existingItem = stack[k].before
    /\ (Returned /\ ret.op = "get") =>
          \A k \in 1..Len(stack) :
              (stack[k].op = "set" /\ stack[k].key = ret.key
                  /\ ~stack[k].nested)
              => ret.val = stack[k].before

\* C3: a get of a key that was never passed to set returns not-found.
C3_NeverSetNotFound ==
    (Returned /\ ret.op = "get" /\ ret.key \notin setIds)
        => ret.val = Undefined

\* C4: a get that returns has delivered the one read event {id: key} to
\* every read subscriber, once each, whether the key is present or not.
C4_ReadEventPublished ==
    (Returned /\ ret.op = "get") =>
        /\ ret.chan = "onRead"
        /\ ret.pending = 0
        /\ \A e \in Range(ret.invoked) : e.ev = [id |-> ret.key]
        /\ \A x \in Range(ret.snap) :
              Cardinality({k \in 1..Len(ret.invoked) :
                              ret.invoked[k].sid = x.sid}) = 1

\* a get of an absent key returns after its read subscriber was called
C4_Witness ==
    /\ Returned /\ ret.op = "get"
    /\ ret.val = Undefined
    /\ ret.snap # <<>>
    /\ Len(ret.invoked) = Len(ret.snap)

(* --------------------- properties of the channel ---------------------- *)

\* the first n invocations of the pass just finished follow its snapshot
FollowsSnap ==
    /\ Len(ret.invoked) >= Len(ret.snap)
    /\ \A k \in 1..Len(ret.snap) :
          /\ ret.invoked[k].cb = ret.snap[k].cb
          /\ ret.invoked[k].sid = ret.snap[k].sid

\* C5: a pass during which a handle was invoked still calls every callback
\* subscribed when it began, once each and in order; when nothing was
\* subscribed during the pass it calls nothing else.
C5_UnsubscribeDuringPass ==
    (Returned /\ ret.unsubDuring) =>
        /\ FollowsSnap
        /\ ~ret.subDuring => Len(ret.invoked) = Len(ret.snap)

\* a pass returns that called a subscriber after another subscriber had
\* invoked the handle of its callback
C5_Witness ==
    /\ Returned /\ ret.unsubPending
    /\ Len(ret.snap) >= 2
    /\ ret.snap[1].cb # ret.snap[2].cb
    /\ Len(ret.invoked) = Len(ret.snap)

\* C6: a pass calls no callback that was registered while it was running.
C6_NoLateSubscriber ==
    Returned => Sids(ret.invoked) \subseteq Sids(ret.snap)

\* C7: invoking a handle removes the one subscription that produced it and
\* nothing else; invoking it again changes nothing.
C7_HandleRemovesOwnSubscription ==
    [][\A h \in handles :
          Unsubscribe(h) =>
              observers'[h.chan] =
                  IF h.sid \in usedSids THEN observers[h.chan]
                  ELSE SelectSeq(observers[h.chan],
                                 LAMBDA o : o.sid # h.sid)]_vars

\* C8: a pass that returns has called every callback subscribed when it
\* began exactly once, in subscription order, each with the event of the
\* call, and leaves no call to be made after it returns.
C8_PublishInOrder ==
    Returned =>
        /\ FollowsSnap
        /\ ret.pending = 0
        /\ \A j, k \in 1..Len(ret.snap) :
              j < k => ret.invoked[j].sid < ret.invoked[k].sid
        /\ \A x \in Range(ret.snap) :
              Cardinality({k \in 1..Len(ret.invoked) :
                              ret.invoked[k].sid = x.sid}) = 1
        /\ \A e \in Range(ret.invoked) : e.ev = ret.ev

\* a set returns after calling two different callbacks
C8_Witness ==
    /\ Returned /\ ret.op = "set"
    /\ Len(ret.snap) >= 2
    /\ ret.snap[1].cb # ret.snap[2].cb
    /\ ret.ev.existingItem # Undefined

\* the subscriptions of channel c whose callback was not unsubscribed since
Alive(c) ==
    {h.sid : h \in {x \in handles : x.chan = c /\ x.sid \notin dead}}

\* C9: once a handle was invoked, no pass that begins afterwards calls its
\* callback on account of a subscription made before the invocation; the
\* subscriptions of the other callbacks all stay, in subscription order.
C9_UnsubscribedNotNotified ==
    /\ \A c \in Chans :
          /\ Sids(observers[c]) = Alive(c)
          /\ \A j, k \in 1..Len(observers[c]) :
                j < k => observers[c][j].sid < observers[c][k].sid
    /\ \A k \in 1..Len(stack) :
          /\ Sids(stack[k].snap) \cap stack[k].gone = {}
          /\ Sids(stack[k].invoked) \cap stack[k].gone = {}

\* a pass that began after a handle was invoked has called the two other
\* subscribers
C9_Witness ==
    /\ stack # <<>>
    /\ Top.gone # {}
    /\ Len(Top.snap) = 2
    /\ Len(Top.invoked) = 2
    /\ \E s \in Top.gone : s < Top.snap[2].sid

\* C10: a set abandoned because a pre-write subscriber threw hands the error
\* to its caller, calls no further subscriber, and leaves the mapping as it
\* was when set was called (a set made and finished by one of its own
\* subscribers aside).
C10_FailedSetNotCommitted ==
    (Raised /\ ret.op = "set") =>
        /\ exc
        /\ Len(stack) = ret.depth - 1
        /\ ~ret.nested => <<db, dbProto>> = ret.dbBefore

\* a set of a new record for a stored id is abandoned by its first
\* subscriber, with a second subscriber still to be called
C10_Witness ==
    /\ Raised /\ ret.op = "set"
    /\ ret.pending > 0
    /\ db = <<Item("a", 10)>>
    /\ ret.item = Item("a", 90)

(* ---------------------- properties of the queries --------------------- *)

\* the stored records in insertion order of their identifiers
InsertionOrder ==
    IF inserted = <<>> THEN <<>>
    ELSE [k \in 1..Len(inserted) |-> lastSet[inserted[k]]]

\* C11: each visits every stored record exactly once, in insertion order
\* of the identifiers, whatever strings the identifiers are.
C11_EachInInsertionOrder ==
    ret.op = "each" => ret.visited = InsertionOrder

\* the records of items whose score under fn is the maximum over items, in
\* the order of items
BestOf(items, fn) ==
    SelectSeq(items,
              LAMBDA r : \A q \in Range(items) :
                             ~Less(ScoreOf(fn, r), ScoreOf(fn, q)))

\* the step just taken is a best-of query returning
BestReturned == ret.op \in {"getBestByScore", "getBestWiki"}

\* C12: on a store of one or more records a best-of query returns exactly the
\* records whose score is the maximum over the stored records, each once,
\* in iteration order, whatever numbers the score function returns.
C12_BestIsMaximum ==
    (BestReturned /\ inserted # <<>>)
        => ret.result = BestOf(Values(db), ret.fn)

\* C13: getBestWiki returns the maximum-score records under the policy in
\* force when it is called; setBestStrategy puts its argument in force at
\* once, changes neither the mapping nor a subscriber list, and nothing else
\* changes the policy.
C13_StrategyTakesEffect ==
    [][/\ ret'.op = "getBestWiki" =>
              /\ ret'.fn = bestStrategy
              /\ ret'.result = BestOf(Values(db), bestStrategy)
       /\ ret'.op = "setBestStrategy" =>
              /\ bestStrategy' = ret'.fn
              /\ UNCHANGED <<db, dbProto, observers>>
       /\ bestStrategy' # bestStrategy => ret'.op = "setBestStrategy"]_vars

\* after setBestStrategy(BestBalance) getBestWiki returns a record that is
\* not the best under the policy of the constructor
C13_Witness ==
    /\ ret.op = "getBestWiki"
    /\ bestStrategy = "BestBalance"
    /\ ret.result # <<>>
    /\ ret.result # BestOf(Values(db), "BestAttack")

\* C14: no record that its score function scores at the sentinel,
\* Number.MIN_SAFE_INTEGER, is in the result of a best-of query.
C14_SentinelNeverWins ==
    BestReturned =>
        \A r \in Range(ret.result) :
            ~NumEq(ScoreOf(ret.fn, r), MinSafeInteger)

(* ---------------- further properties of store and channel ------------- *)

\* the number of calls the loop of the k-th call in progress has yet to make
ToCall(s, k) == Len(s[k].arr) - s[k].i

\* C15: every pass runs to completion whatever its subscribers subscribe or
\* unsubscribe: no step adds to the calls a pass in progress has yet to
\* make, so each call made brings the pass one call nearer its end.
C15_PassRunsToCompletion ==
    [][\A k \in 1..Len(stack) :
          k <= Len(stack') => ToCall(stack', k) <= ToCall(stack, k)]_vars

\* C16: while no set has stored a record, a best-of query returns the
\* empty list and calls its score function on nothing, whatever the score
\* function or the policy.
C16_EmptyStoreEmptyResult ==
    (BestReturned /\ inserted = <<>>)
        => ret.result = <<>> /\ ret.visited = <<>>

\* a best-of query returns on a store whose only set was abandoned
C16_Witness ==
    /\ BestReturned
    /\ inserted = <<>>
    /\ setIds # {}
    /\ stack = <<>>

\* C17: what getBestWiki returns is what getBestByScore returns in the same
\* state when given the score function of the current policy.
C17_WikiIsByScoreOfPolicy ==
    /\ ret.op = "getBestWiki"
           => ret.result = GetBestByScoreResult(db, bestStrategy)
    /\ (ret.op = "getBestByScore" /\ ret.fn = bestStrategy)
           => ret.result = GetBestWikiResult(db, bestStrategy)

\* getBestWiki has returned records chosen out of several
C17_Witness ==
    /\ ret.op = "getBestWiki"
    /\ ret.result # <<>>
    /\ Len(Values(db)) > Len(ret.result)

QueryOps == {"each", "getBestByScore", "getBestWiki"}

\* C18: each, getBestByScore and getBestWiki publish nothing: the step in
\* which one of them reports starts no pass over either subscriber list
\* and counts as no set or get.
C18_QueriesPublishNothing ==
    [][(ret' # ret /\ ret'.op \in QueryOps) => UNCHANGED <<stack, calls>>]_vars

\* each has visited stored records while a read subscriber was registered
C18_Witness ==
    /\ ret.op = "each"
    /\ ret.visited # <<>>
    /\ observers["onRead"] # <<>>

\* the channel an operation publishes on
ChanOf(op) == IF op = "set" THEN "beforeSet" ELSE "onRead"

\* the subscriptions made through channel c
SubscribedOn(c) == {h.sid : h \in {x \in handles : x.chan = c}}

GetStep ==
    \/ /\ Len(stack') = Len(stack) + 1
       /\ stack'[Len(stack')].op = "get"
    \/ /\ stack # <<>>
       /\ Top.op = "get"
       /\ \/ Len(stack') = Len(stack) - 1
          \/ /\ Len(stack') = Len(stack)
             /\ stack'[Len(stack')].running # Top.running

\* a step in which each, getBestByScore or getBestWiki runs
QueryStep == ret' # ret /\ ret'.op \in QueryOps

\* the identifiers that have a record in the store
StoredIds(d, proto) ==
    {d[k].id : k \in 1..Len(d)}
        \cup (IF proto.kind = "record" THEN {"__proto__"} ELSE {})

\* C20: the steps of get, each, getBestByScore and getBestWiki change
\* neither the mapping nor the policy nor either subscriber list, and no
\* step of any operation removes a stored identifier.
C20_ReadOnlyOperations ==
    [][/\ (GetStep \/ QueryStep)
              => UNCHANGED <<db, dbProto, bestStrategy, observers>>
       /\ StoredIds(db, dbProto) \subseteq StoredIds(db', dbProto')]_vars

\* a get has returned a stored record after calling a subscriber that did
\* nothing, and the mapping is as it was when the get was called
C20_Witness ==
    /\ Returned
    /\ ret.op = "get"
    /\ ret.val.kind = "record"
    /\ ret.invoked # <<>>
    /\ ~ret.nested
    /\ <<db, dbProto>> = ret.dbBefore
    /\ db # <<>>

====
